---------------------------- MODULE Spec2Model ----------------------------
(***************************************************************************)
(* A model of the blip repository (blip.py, miniblip.py, ollamablip.py).   *)
(*                                                                         *)
(* Spec      : the streaming pipeline of ollamablip.py: the main thread's  *)
(*             token coalescer, the AudioWorker thread, its Player and the *)
(*             operating system's player processes and temporary files.    *)
(* FairSpec  : Spec with weak fairness of the worker thread and of the end  *)
(*             of a playback, for the liveness properties.                 *)
(* SchedSpec : the line scheduler and line renderer (pure functions)       *)
(*             applied to inputs drawn from bounded sets.                  *)
(* MenuSpec  : the menu loop of blip.py: the Config, the bank of           *)
(*             variations and the grain objects.                           *)
(* DspSpec   : the synthesis functions, the PCM encoder, the limiter, the  *)
(*             variation tables and the schedulers of the three files      *)
(*             (pure functions) applied to inputs drawn from bounded sets. *)
(* ConfigSpec: the menu loop of blip.py with every handler that sets a     *)
(*             field of the Config.                                        *)
(* LateSpec  : Spec with a client that calls enqueue after close().        *)
(* CoalesceSpec : the stream loop alone, on text that holds markup.        *)
(*                                                                         *)
(* Text is a sequence of one-character strings.  Real numbers are exact    *)
(* rationals held as integers over a stated denominator; Python's int()    *)
(* of a non-negative float is the floor (\div).  The one rounding error    *)
(* that is tracked is that of the limiter's scale factor.                  *)
(***************************************************************************)
EXTENDS Integers, Sequences, FiniteSets, TLC

(***************************************************************************)
(* Bounds of the model.                                                    *)
(***************************************************************************)
MaxChunks == 2          \* chunks the text source yields before it ends
TickMs    == 90         \* one step of the monotonic clock, in milliseconds
MaxSince  == 2          \* the clock is tracked up to this many ticks since the last flush
MaxOverlap == 2         \* player processes running at the same time
MaxLeaked == 1          \* temporary files on disk that the Player does not reference

(***************************************************************************)
(* Program constants.                                                      *)
(***************************************************************************)
COALESCE_MS == 180
PUNCT == {".", "!", "?", ";", ":"}
THINK_OPEN  == <<"<", "t", "h", "i", "n", "k", ">">>
THINK_CLOSE == <<"<", "/", "t", "h", "i", "n", "k", ">">>

\* The chunks the text source may yield (stream_generate yields non-empty strings).
Chunks == { <<"a">>, <<"b", ".">> }

\* Python's None, for the Player's fields.
None == 0
\* The sentinel AudioWorker.close puts on the queue (Python's None as a queue item).
Sentinel == [n |-> 0, text |-> <<>>]

\* Player.__init__: the mode is fixed at construction.  "aplay" stands for the
\* three subprocess modes afplay / paplay / aplay, which differ only in the command.
Modes == {"winsound", "aplay", "bell"}

VARIABLES
    \* ---- main thread (ollamablip.main) ----
    mpc,        \* position of the main thread
    outcome,    \* how the stream loop was left: "none", "end", "interrupt", "error"
    nrecv,      \* chunks received so far
    printed,    \* text echoed to stdout
    bucket,     \* the coalescing bucket: a sequence of chunks
    since,      \* time.monotonic() - last_t, in ticks (tracked up to MaxSince)
    enq,        \* history: every fragment handed to AudioWorker.enqueue, in order,
                \* as [raw |-> "".join(bucket), audio |-> the text enqueued]
    \* ---- AudioWorker ----
    q,          \* self.q: the queue's items, oldest first
    stop,       \* self.stop
    wpc,        \* position of the worker thread in run()
    item,       \* the local variable item of run()
    started,    \* history: ordinals of the fragments play_async was issued for, in order
    \* ---- Player and operating system ----
    mode,       \* self.player.mode
    p,          \* self.player.p: the play whose process it references, or None
    path,       \* self.player.path: the play whose WAV file it references, or None
    nplay,      \* number of play_async calls so far (names processes and files)
    playing,    \* plays whose playback is in progress (running process / winsound)
    files,      \* plays whose temporary WAV file exists on disk
    sink,       \* what the last play_async did: "none" (no call yet), "started"
                \* (playback started), "bell" (terminal bell written), "silent" (neither)
    \* ---- one call of a pure function ----
    stage,      \* "idle" (no call), "in" (arguments chosen), "scheduled", "rendered",
                \* "printed", "synth", "encoded", "limited", "relimited", "built",
                \* "scheduled_in" (the call made)
    sIn,        \* the arguments of the call
    sOut,       \* what the scheduler returned: [starts, total]
    rOut,       \* what the renderer returned: the buffer, as [num, den, err]
    \* ---- the menu program (blip.main) ----
    cfg,        \* the Config: [amp, sr, cps, pm, ws, gap, flush]
    bank,       \* the list variations: preset name -> the grain object it references
    heap,       \* the grain objects (Python lists) built so far: object -> contents
    nbuilds,    \* number of build_variations calls so far
    choice,     \* the menu choice handled last
    entry,      \* what was typed at that choice's prompt: [kind |-> "num", v |-> the number],
                \* kind "bad" when float()/int() raised, kind "none" when there was no prompt
    played      \* the last render of play_line: the Config's sample rate and amplitude
                \* and those the grain rendered was built with, [sr, amp, gsr, gamp]

mainVars   == <<mpc, outcome, nrecv, printed, bucket, since, enq>>
workerVars == <<stop, wpc, item, started>>
playerVars == <<mode, p, path, nplay, playing, files, sink>>
schedVars  == <<stage, sIn, sOut, rOut>>
menuVars   == <<cfg, bank, heap, nbuilds, choice, entry, played>>
streamVars == <<mainVars, q, workerVars, playerVars>>
vars == <<mainVars, q, workerVars, playerVars, schedVars, menuVars>>

(***************************************************************************)
(* Text helpers.                                                           *)
(***************************************************************************)
\* "".join(bucket)
RECURSIVE Join(_)
Join(chunks) ==
    IF chunks = <<>> THEN <<>> ELSE Head(chunks) \o Join(Tail(chunks))

\* str.replace(pat, ""): remove every non-overlapping occurrence, left to right.
RECURSIVE Remove(_, _)
Remove(s, pat) ==
    IF Len(s) < Len(pat) THEN s
    ELSE IF SubSeq(s, 1, Len(pat)) = pat
         THEN Remove(SubSeq(s, Len(pat) + 1, Len(s)), pat)
         ELSE <<Head(s)>> \o Remove(Tail(s), pat)

\* any(c in PUNCT for c in chunk)
HasPunct(chunk) == \E i \in DOMAIN chunk : chunk[i] \in PUNCT

\* flush_bucket: audio_text = text.replace("<think>","").replace("</think>","")
AudioText(text) == Remove(Remove(text, THINK_OPEN), THINK_CLOSE)

(***************************************************************************)
(* Initial state: main() has constructed and started the AudioWorker.      *)
(***************************************************************************)
\* no number was asked for
NoEntry == [kind |-> "none", v |-> 0]

SchedIdle == stage = "idle" /\ sIn = <<>> /\ sOut = <<>> /\ rOut = <<>>

MenuIdle ==
    /\ cfg = <<>> /\ bank = <<>> /\ heap = <<>>
    /\ nbuilds = 0 /\ choice = "" /\ entry = NoEntry /\ played = <<>>

StreamInit ==
    /\ mpc = "stream" /\ outcome = "none" /\ nrecv = 0
    /\ printed = <<>> /\ bucket = <<>> /\ since = 0 /\ enq = <<>>
    /\ q = <<>>
    /\ stop = FALSE /\ wpc = "loop" /\ item = Sentinel /\ started = <<>>
    /\ mode \in Modes /\ p = None /\ path = None
    /\ nplay = 0 /\ playing = {} /\ files = {} /\ sink = "none"

Init == StreamInit /\ SchedIdle /\ MenuIdle

(***************************************************************************)
(* Main thread.                                                            *)
(***************************************************************************)
\* a faulty enqueue: the fragment is put at the head of the queue
QueueAfterEnqueue_Lifo(text) == <<[n |-> Len(enq) + 1, text |-> text]>> \o q

\* AudioWorker.enqueue(text): self.q.put(text)
QueueAfterEnqueue(text) == Append(q, [n |-> Len(enq) + 1, text |-> text])

\* flush_bucket(): the values of <<q, enq, bucket, since>> after flushing bucket b
FlushBucket(b) ==
    IF b = <<>>
    THEN /\ q' = q /\ enq' = enq /\ bucket' = b /\ since' = since
    ELSE /\ q' = QueueAfterEnqueue(AudioText(Join(b)))
         /\ enq' = Append(enq, [raw |-> Join(b), audio |-> AudioText(Join(b))])
         /\ bucket' = <<>>
         /\ since' = 0

\* time passes while the main thread blocks on the stream
Tick ==
    /\ mpc = "stream"
    /\ since < MaxSince
    /\ since' = since + 1
    /\ UNCHANGED <<mpc, outcome, nrecv, printed, bucket, enq, q, workerVars, playerVars>>
    /\ UNCHANGED <<schedVars, menuVars>>

\* one iteration of the stream loop on the chunks of source:
\* echo, bucket.append, conditional flush
Recv(source) ==
    /\ mpc = "stream"
    /\ nrecv < MaxChunks
    /\ \E chunk \in source :
        /\ nrecv' = nrecv + 1
        /\ printed' = printed \o chunk
        /\ IF since * TickMs >= COALESCE_MS \/ HasPunct(chunk)
           THEN FlushBucket(Append(bucket, chunk))
           ELSE /\ bucket' = Append(bucket, chunk)
                /\ UNCHANGED <<q, enq, since>>
    /\ UNCHANGED <<mpc, outcome, workerVars, playerVars>>
    /\ UNCHANGED <<schedVars, menuVars>>

\* one iteration of the stream loop
RecvChunk == Recv(Chunks)

\* the stream is exhausted: the flush_bucket() after the loop, then the finally clause
StreamEnd ==
    /\ mpc = "stream"
    /\ FlushBucket(bucket)
    /\ mpc' = "close" /\ outcome' = "end"
    /\ UNCHANGED <<nrecv, printed, workerVars, playerVars>>
    /\ UNCHANGED <<schedVars, menuVars>>

\* KeyboardInterrupt ("except KeyboardInterrupt: pass") or an exception of the
\* stream (connection lost: not caught): control goes to the finally clause.
StreamAbort ==
    /\ mpc = "stream"
    /\ \E how \in {"interrupt", "error"} : outcome' = how
    /\ mpc' = "close"
    /\ UNCHANGED <<nrecv, printed, bucket, since, enq, q, workerVars, playerVars>>
    /\ UNCHANGED <<schedVars, menuVars>>

\* a faulty close: it also resets the Player (playback terminated, files removed)
CloseStop_Reset ==
    /\ mpc = "close"
    /\ stop' = TRUE
    /\ mpc' = "close_put"
    /\ playing' = {} /\ files' = {} /\ p' = None /\ path' = None
    /\ UNCHANGED <<outcome, nrecv, printed, bucket, since, enq, q, wpc, item, started, mode, nplay, sink>>
    /\ UNCHANGED <<schedVars, menuVars>>

\* AudioWorker.close(), first statement: self.stop=True
CloseStop ==
    /\ mpc = "close"
    /\ stop' = TRUE
    /\ mpc' = "close_put"
    /\ UNCHANGED <<outcome, nrecv, printed, bucket, since, enq, q, wpc, item, started, playerVars>>
    /\ UNCHANGED <<schedVars, menuVars>>

\* a faulty close: no sentinel is put on the queue
ClosePut_NoSentinel ==
    /\ mpc = "close_put"
    /\ mpc' = "join"
    /\ UNCHANGED <<outcome, nrecv, printed, bucket, since, enq, q, workerVars, playerVars>>
    /\ UNCHANGED <<schedVars, menuVars>>

\* AudioWorker.close(), second statement: self.q.put(None)
ClosePut ==
    /\ mpc = "close_put"
    /\ q' = Append(q, Sentinel)
    /\ mpc' = "join"
    /\ UNCHANGED <<outcome, nrecv, printed, bucket, since, enq, workerVars, playerVars>>
    /\ UNCHANGED <<schedVars, menuVars>>

\* aw.join(timeout=1.5): returns when the worker has finished or the timeout elapses
Join15 ==
    /\ mpc = "join"
    /\ mpc' = "done"
    /\ UNCHANGED <<outcome, nrecv, printed, bucket, since, enq, q, workerVars, playerVars>>
    /\ UNCHANGED <<schedVars, menuVars>>

(***************************************************************************)
(* Player (ollamablip.Player).                                             *)
(***************************************************************************)
\* whether the model lets the next subprocess.Popen succeed / fail
PopenOutcomes ==
    { ok \in BOOLEAN :
        \/ ok /\ Cardinality(playing) < MaxOverlap
        \/ ~ok /\ Cardinality(files \ {path}) < MaxLeaked }

\* play_async: what the call did.  Only the branch "else" (mode "bell") writes
\* the bell; "except: self.p=None" writes nothing.
SinkAfterPlay(ok) ==
    CASE mode = "winsound" -> "started"
      [] mode = "aplay"    -> IF ok THEN "started" ELSE "silent"
      [] OTHER             -> "bell"

\* play_async: the values of playerVars after starting play k.
\*   ok: whether subprocess.Popen succeeded (subprocess modes only)
PlayAsync(k, ok) ==
    /\ nplay' = k
    /\ mode' = mode
    /\ CASE mode = "winsound" ->
              /\ files' = files \cup {k}
              /\ path' = k
              /\ playing' = {k}          \* PlaySound(SND_ASYNC) replaces the sound in progress
              /\ p' = p
         [] mode = "aplay" ->
              /\ files' = files \cup {k}
              /\ IF ok THEN /\ p' = k /\ path' = k /\ playing' = playing \cup {k}
                       ELSE /\ p' = None /\ path' = path /\ playing' = playing
         [] OTHER ->                     \* "bell": sys.stdout.write("\a")
              UNCHANGED <<p, path, playing, files>>
    /\ sink' = SinkAfterPlay(ok)

\* wait_done(timeout): returns when the process has exited or the timeout has
\* elapsed (subprocess.TimeoutExpired is swallowed); then removes the file.
WaitDone ==
    /\ UNCHANGED <<mode, nplay, playing, p, sink>>
    /\ IF mode = "winsound" \/ p # None
       THEN /\ files' = files \ {path}
            /\ path' = None
       ELSE UNCHANGED <<path, files>>

(***************************************************************************)
(* Worker thread (AudioWorker.run).                                        *)
(***************************************************************************)
\* "while not self.stop:"
WLoop ==
    /\ wpc = "loop"
    /\ wpc' = IF stop THEN "done" ELSE "get"
    /\ UNCHANGED <<mainVars, q, stop, item, started, playerVars>>
    /\ UNCHANGED <<schedVars, menuVars>>

\* the item q.get() returns
QueueGet == Head(q)

\* "item=self.q.get(); if item is None: break; samples = render_line(...)"
WGet ==
    /\ wpc = "get"
    /\ q # <<>>
    /\ item' = QueueGet
    /\ q' = Tail(q)
    /\ wpc' = IF QueueGet = Sentinel THEN "done" ELSE "play"
    /\ UNCHANGED <<mainVars, stop, started, playerVars>>
    /\ UNCHANGED <<schedVars, menuVars>>

\* "dur = self.player.play_async(samples, self.sr, self.tmp)"
WPlay ==
    /\ wpc = "play"
    /\ \E ok \in PopenOutcomes : PlayAsync(nplay + 1, ok)
    /\ started' = Append(started, item.n)
    /\ wpc' = "wait"
    /\ UNCHANGED <<mainVars, q, stop, item>>
    /\ UNCHANGED <<schedVars, menuVars>>

\* "self.player.wait_done(dur+0.03)"
WWait ==
    /\ wpc = "wait"
    /\ WaitDone
    /\ wpc' = "flush_play"
    /\ UNCHANGED <<mainVars, q, stop, item, started>>
    /\ UNCHANGED <<schedVars, menuVars>>

\* flush_silence, first half: self.play_async(s, sr, tempfile.gettempdir())
WFlushPlay ==
    /\ wpc = "flush_play"
    /\ \E ok \in PopenOutcomes : PlayAsync(nplay + 1, ok)
    /\ wpc' = "flush_wait"
    /\ UNCHANGED <<mainVars, q, stop, item, started>>
    /\ UNCHANGED <<schedVars, menuVars>>

\* flush_silence, second half: self.wait_done(ms/1000.0+0.05); then time.sleep(POST_GAP)
WFlushWait ==
    /\ wpc = "flush_wait"
    /\ WaitDone
    /\ wpc' = "loop"
    /\ UNCHANGED <<mainVars, q, stop, item, started>>
    /\ UNCHANGED <<schedVars, menuVars>>

Worker == WLoop \/ WGet \/ WPlay \/ WWait \/ WFlushPlay \/ WFlushWait

(***************************************************************************)
(* Environment: a playback in progress comes to its end.                   *)
(***************************************************************************)
PlaybackEnds ==
    /\ \E k \in playing : playing' = playing \ {k}
    /\ UNCHANGED <<mainVars, q, workerVars, mode, p, path, nplay, files, sink>>
    /\ UNCHANGED <<schedVars, menuVars>>

Main == Tick \/ RecvChunk \/ StreamEnd \/ StreamAbort \/ CloseStop \/ ClosePut \/ Join15

Next == Main \/ Worker \/ PlaybackEnds

Spec == Init /\ [][Next]_vars

(***************************************************************************)
(* The AudioWorker with a client that, unlike main, may call enqueue after *)
(* close() has returned.                                                   *)
(***************************************************************************)
MaxLate == 1            \* calls of enqueue after close()

\* the fragments enqueued after close()
Late == {i \in DOMAIN enq : "late" \in DOMAIN enq[i]}

\* AudioWorker.enqueue(text), called after close() has returned
LateEnqueue ==
    /\ mpc \in {"join", "done"}
    /\ Cardinality(Late) < MaxLate
    /\ \E text \in Chunks :
         /\ q' = QueueAfterEnqueue(text)
         /\ enq' = Append(enq, [raw |-> text, audio |-> text, late |-> TRUE])
    /\ UNCHANGED <<mpc, outcome, nrecv, printed, bucket, since, workerVars, playerVars>>
    /\ UNCHANGED <<schedVars, menuVars>>

LateNext == Next \/ LateEnqueue

LateSpec == Init /\ [][LateNext]_vars

(***************************************************************************)
(* The stream loop of ollamablip.main on a model's answer that holds       *)
(* <think> markup, split into chunks at any place.  Only the main thread   *)
(* takes steps: the worker's steps change none of printed, bucket and enq. *)
(***************************************************************************)
\* "<think>a", "<th", "</think>ink>", "ink>."
TagChunks ==
    { THINK_OPEN \o <<"a">>,
      <<"<", "t", "h">>,
      THINK_CLOSE \o <<"i", "n", "k", ">">>,
      <<"i", "n", "k", ">", ".">> }

CoalesceInit ==
    /\ mpc = "stream" /\ outcome = "none" /\ nrecv = 0
    /\ printed = <<>> /\ bucket = <<>> /\ since = 0 /\ enq = <<>>
    /\ q = <<>>
    /\ stop = FALSE /\ wpc = "idle" /\ item = Sentinel /\ started = <<>>
    /\ mode = "bell" /\ p = None /\ path = None
    /\ nplay = 0 /\ playing = {} /\ files = {} /\ sink = "none"
    /\ SchedIdle /\ MenuIdle

RecvTagged == Recv(TagChunks)

CoalesceNext == Tick \/ RecvTagged \/ StreamEnd \/ StreamAbort

CoalesceSpec == CoalesceInit /\ [][CoalesceNext]_vars

(***************************************************************************)
(* Line scheduler and line renderer (blip.py; miniblip.py and              *)
(* ollamablip.py hold the same code under shorter names).                  *)
(*                                                                         *)
(* cps and punct_mult are rationals <<numerator, denominator>>.  The time  *)
(* cursor t is held as the numerator tNum of t = tNum / TimeDen.  The      *)
(* arithmetic of the scheduler is exact.                                   *)
(***************************************************************************)
\* a faulty step: only a non-positive rate is replaced by 1.0
Step_ClampNonPositive(cps) == IF cps[1] <= 0 THEN <<1, 1>> ELSE <<cps[2], cps[1]>>

\* "step = 1.0 / max(1.0, cps)", as <<numerator, denominator>>
Step(cps) == IF cps[1] <= cps[2] THEN <<1, 1>> ELSE <<cps[2], cps[1]>>

\* the denominator of the time cursor
TimeDen(cps, pm) == Step(cps)[2] * pm[2]

\* a faulty advance: punctuation advances the cursor like any other character
Advance_NoPause(ch, cps, pm) == Step(cps)[1] * pm[2]

\* "step * (punct_mult if ch in PUNCT else 1.0)", as a numerator over TimeDen
Advance(ch, cps, pm) ==
    IF ch \in PUNCT THEN Step(cps)[1] * pm[1] ELSE Step(cps)[1] * pm[2]

\* a faulty test: every character gets an onset
Blips_Always(ch, ws) == TRUE

\* "ch.strip() or include_whitespace"
Blips(ch, ws) == ch # " " \/ ws

\* a faulty onset: t * sr rounded to the nearest integer
Onset_Round(tNum, den, sr) == (2 * tNum * sr + den) \div (2 * den)

\* "int(t * sr)"
Onset(tNum, den, sr) == (tNum * sr) \div den

\* the loop "for ch in text": <<starts, tNum>> after the characters i..Len(text)
RECURSIVE SchedLoop(_, _, _, _, _, _, _, _)
SchedLoop(text, i, tNum, starts, cps, pm, ws, sr) ==
    IF i > Len(text) THEN <<starts, tNum>>
    ELSE SchedLoop(text, i + 1, tNum + Advance(text[i], cps, pm),
                   IF Blips(text[i], ws)
                   THEN Append(starts, Onset(tNum, TimeDen(cps, pm), sr))
                   ELSE starts,
                   cps, pm, ws, sr)

\* a faulty length: neither the grain nor the 0.12 s tail is counted
TotalLen_NoTail(tNum, den, glen, sr) == ((tNum * sr) \div den) + 1

\* "int(total_sec * sr) + 1" with total_sec = t + grain_len/sr + 0.12  (0.12 = 3/25)
TotalLen(tNum, den, glen, sr) ==
    ((tNum * sr * 25 + (glen * 25 + 3 * sr) * den) \div (25 * den)) + 1

\* schedule_beeps_for_line(text, cps, punct_mult, include_whitespace, grain_len, sr)
Schedule(text, cps, pm, ws, glen, sr) ==
    LET r == SchedLoop(text, 1, 0, <<>>, cps, pm, ws, sr)
    IN  [starts |-> r[1], total |-> TotalLen(r[2], TimeDen(cps, pm), glen, sr)]

\* the loop "for ch in text" of print_line_synced: the offsets from t0 at which
\* the characters i..Len(text) are written, as numerators over TimeDen
RECURSIVE PrintLoop(_, _, _, _, _, _)
PrintLoop(text, i, tNum, targets, cps, pm) ==
    IF i > Len(text) THEN targets
    ELSE PrintLoop(text, i + 1, tNum + Advance(text[i], cps, pm),
                   Append(targets, tNum), cps, pm)

\* print_line_synced(text, cps, punct_mult): character i is written once
\* targets[i]/den seconds have passed
PrintLineSynced(text, cps, pm) ==
    [targets |-> PrintLoop(text, 1, 0, <<>>, cps, pm), den |-> TimeDen(cps, pm)]

(***************************************************************************)
(* A sample sequence is [num, den, err]: sample i is the rational          *)
(* num[i]/den times (1 + err*u), where u is the unit roundoff of Python's  *)
(* floats (positive, smaller than any difference of the rationals in       *)
(* play).  Only the rounding of the limiter's scale factor is tracked; all *)
(* other arithmetic is exact.  A grain's samples are integers over         *)
(* GrainUnit.                                                              *)
(***************************************************************************)
GrainUnit == 4

\* fl(limit_peak / peak) lies below, on or above the exact quotient
RoundErr == {-1, 0, 1}

Min(x, y) == IF x < y THEN x ELSE y
Abs(x) == IF x < 0 THEN -x ELSE x

RECURSIVE SumSeq(_)
SumSeq(a) == IF a = <<>> THEN 0 ELSE Head(a) + SumSeq(Tail(a))

\* max(abs(s) for s in samples), of the numerators
RECURSIVE MaxAbs(_)
MaxAbs(a) ==
    IF a = <<>> THEN 0
    ELSE LET m == MaxAbs(Tail(a)) IN IF Abs(Head(a)) > m THEN Abs(Head(a)) ELSE m

\* "if dc_block: m = sum(samples)/len(samples); samples = [s - m for s in samples]"
DcBlock(a) ==
    [num |-> [i \in DOMAIN a.num |-> Len(a.num) * a.num[i] - SumSeq(a.num)],
     den |-> Len(a.num) * a.den,
     err |-> a.err]

\* a faulty limiter: the samples are never scaled
ScaleToCeiling_Off(a, ceil, e) == a

\* "peak = max(1e-12, max(abs(s) for s in samples))
\*  if peak > limit_peak: scale = limit_peak/peak; samples = [s*scale for s in samples]"
\* with the ceiling limit_peak = ceil[1]/ceil[2] and e the rounding of scale.
\* (peak is at least 1e-12, so an all-zero sequence is never scaled)
\* A peak of exactly ceil*(1 + u) exceeds the ceiling; the rounding the samples
\* carry cancels in s * (limit_peak/peak), which leaves the rounding of scale.
ScaleToCeiling(a, ceil, e) ==
    LET pk == MaxAbs(a.num)
    IN  IF \/ pk * ceil[2] > ceil[1] * a.den
           \/ pk * ceil[2] = ceil[1] * a.den /\ a.err > 0
        THEN [num |-> [i \in DOMAIN a.num |-> a.num[i] * ceil[1]],
              den |-> ceil[2] * pk,
              err |-> e]
        ELSE a

\* limit_peak(samples, limit_peak, dc_block)
LimitPeak(a, ceil, dc, e) ==
    IF a.num = <<>> THEN a
    ELSE ScaleToCeiling(IF dc THEN DcBlock(a) ELSE a, ceil, e)

\* a faulty pass: the grain overwrites what the buffer holds
AddGrain_Overwrite(buf, grain, s0) ==
    [j \in DOMAIN buf |->
        IF s0 + 1 <= j /\ j <= Min(Len(buf), s0 + Len(grain))
        THEN grain[j - s0]
        ELSE buf[j]]

\* one pass of "for s0 in starts": the grain added into buf from index s0
\* (0-based) up to j_end = min(total_len, s0 + glen)
AddGrain(buf, grain, s0) ==
    [j \in DOMAIN buf |->
        IF s0 + 1 <= j /\ j <= Min(Len(buf), s0 + Len(grain))
        THEN buf[j] + grain[j - s0]
        ELSE buf[j]]

RECURSIVE MixLoop(_, _, _)
MixLoop(buf, grain, starts) ==
    IF starts = <<>> THEN buf
    ELSE MixLoop(AddGrain(buf, grain, Head(starts)), grain, Tail(starts))

\* the ceiling of render_line_audio: limit_peak=0.95
RenderCeiling == <<19, 20>>

\* render_line_audio(text, var, sr, cps, punct_mult, include_whitespace)
RenderLine(text, grain, sr, cps, pm, ws, e) ==
    LET sch == Schedule(text, cps, pm, ws, Len(grain), sr)
        buf == MixLoop([j \in 1..sch.total |-> 0], grain, sch.starts)
    IN  LimitPeak([num |-> buf, den |-> GrainUnit, err |-> 0], RenderCeiling, TRUE, e)

\* the locals starts, total_len and buf of render_line_audio when limit_peak is called
RenderLocals(text, grain, sr, cps, pm, ws) ==
    LET sch == Schedule(text, cps, pm, ws, Len(grain), sr)
    IN  [starts |-> sch.starts, total |-> sch.total,
         buf |-> MixLoop([j \in 1..sch.total |-> 0], grain, sch.starts)]

(***************************************************************************)
(* The arguments the scheduler and the renderer are called with.           *)
(***************************************************************************)
MaxLen == 3             \* characters of a text line
MaxBuf == 40            \* the renderer is applied to lines of at most this many samples

Alphabet == {"a", "b", ".", " "}

RECURSIVE TextsUpTo(_)
TextsUpTo(n) ==
    IF n = 0 THEN {<<>>}
    ELSE TextsUpTo(n - 1) \cup { Append(t, c) : t \in TextsUpTo(n - 1), c \in Alphabet }

\* -3.0, 0.0, 0.5 (all clamped to 1.0), 1.0, 10.0, 26.0
CpsValues  == { <<-3, 1>>, <<0, 1>>, <<1, 2>>, <<1, 1>>, <<10, 1>>, <<26, 1>> }
PunctMults == { <<1, 2>>, <<2, 1>>, <<11, 5>> }        \* 0.5, 2.0, 2.2
SampleRates == { 25, 1000, 44100 }
\* grains: samples in [-1, 1] in units of 1/GrainUnit
Grains == { <<4>>, <<1, -1>>, <<2, 4, 2>>, <<-4, -4, -4>> }

SchedInputs ==
    [text : TextsUpTo(MaxLen), cps : CpsValues, pm : PunctMults, ws : BOOLEAN,
     sr : SampleRates, grain : Grains]

StreamIdle ==
    /\ mpc = "idle" /\ outcome = "none" /\ nrecv = 0
    /\ printed = <<>> /\ bucket = <<>> /\ since = 0 /\ enq = <<>>
    /\ q = <<>>
    /\ stop = FALSE /\ wpc = "idle" /\ item = Sentinel /\ started = <<>>
    /\ mode = "bell" /\ p = None /\ path = None
    /\ nplay = 0 /\ playing = {} /\ files = {} /\ sink = "none"

SchedInit ==
    /\ StreamIdle /\ MenuIdle
    /\ stage = "in" /\ sIn \in SchedInputs /\ sOut = <<>> /\ rOut = <<>>

\* a call of schedule_beeps_for_line
CallSchedule ==
    /\ stage = "in"
    /\ sOut' = Schedule(sIn.text, sIn.cps, sIn.pm, sIn.ws, Len(sIn.grain), sIn.sr)
    /\ stage' = "scheduled"
    /\ UNCHANGED <<sIn, rOut, streamVars, menuVars>>

\* a call of render_line_audio (sOut holds its locals starts, total_len, buf)
CallRender ==
    /\ stage = "in"
    /\ Schedule(sIn.text, sIn.cps, sIn.pm, sIn.ws, Len(sIn.grain), sIn.sr).total <= MaxBuf
    /\ sOut' = RenderLocals(sIn.text, sIn.grain, sIn.sr, sIn.cps, sIn.pm, sIn.ws)
    /\ \E e \in RoundErr :
         rOut' = RenderLine(sIn.text, sIn.grain, sIn.sr, sIn.cps, sIn.pm, sIn.ws, e)
    /\ stage' = "rendered"
    /\ UNCHANGED <<sIn, streamVars, menuVars>>

\* a call of print_line_synced (rOut holds the times the characters are written at)
CallPrintSynced ==
    /\ stage = "in"
    /\ rOut' = PrintLineSynced(sIn.text, sIn.cps, sIn.pm)
    /\ stage' = "printed"
    /\ UNCHANGED <<sIn, sOut, streamVars, menuVars>>

SchedNext == CallSchedule \/ CallRender \/ CallPrintSynced

SchedSpec == SchedInit /\ [][SchedNext]_vars

(***************************************************************************)
(* The menu program (blip.main): the Config, the list of variations and    *)
(* the grain objects it references.                                        *)
(*                                                                         *)
(* Amplitudes are held in hundredths.  A grain object's contents are held  *)
(* as what determines its samples: the amplitude and sample rate it was    *)
(* built with and, per synthesis call it is concatenated from, the kind,   *)
(* the number of samples and, for noise, the state the random generator    *)
(* had when build_variations was called.  Of the                           *)
(* 20 presets the six below are modelled: one per synthesis function, the  *)
(* two noise-based ones and the three-part arpeggio.  The Config fields    *)
(* texts and deep_clear_between_runs and their handlers are left out; the  *)
(* handlers of post_gap and silence_flush_ms, which touch neither the bank *)
(* nor what a line is rendered with, are steps of ConfigSpec only.         *)
(***************************************************************************)
MaxBuilds == 3          \* build_variations calls, the one at start-up included

DEFAULT_SR == 44100
DEFAULT_AMP == 24
DEFAULT_CPS == 26
DEFAULT_PUNCT_MULT == <<11, 5>>

Presets ==
    {"pulse25_mid", "sine_up_sweep", "noise_click", "arp_chiptune", "fe_gba_click", "ps4_gen_fm"}

\* the state of the module random's generator when build_variations is called
\* (never seeded by the program), as a token
Draws == {0, 1}

\* the synthesis calls a preset is concatenated from: kind, dur_ms, factor of amp
Recipe(name) ==
    CASE name = "pulse25_mid"   -> << [kind |-> "fixed", ms |-> 55, f |-> <<1, 1>>] >>
      [] name = "sine_up_sweep" -> << [kind |-> "sweep", ms |-> 70, f |-> <<1, 1>>] >>
      [] name = "noise_click"   -> << [kind |-> "noise", ms |-> 40, f |-> <<9, 10>>] >>
      [] name = "arp_chiptune"  -> << [kind |-> "fixed", ms |-> 18, f |-> <<1, 1>>],
                                      [kind |-> "fixed", ms |-> 18, f |-> <<1, 1>>],
                                      [kind |-> "fixed", ms |-> 18, f |-> <<1, 1>>] >>
      [] name = "fe_gba_click"  -> << [kind |-> "noise", ms |-> 24, f |-> <<4, 5>>],
                                      [kind |-> "fixed", ms |-> 18, f |-> <<3, 4>>] >>
      [] OTHER                  -> << [kind |-> "fm", ms |-> 55, f |-> <<1, 1>>] >>

\* Python's int() of the quotient num/den (den > 0): truncation toward zero
IntTrunc(num, den) == IF num >= 0 THEN num \div den ELSE -((-num) \div den)

\* a faulty length: the product rounded to the nearest integer
SynthLen_Round(ms, sr) ==
    IF 2 * sr * ms + 1000 > 0 THEN (2 * sr * ms + 1000) \div 2000 ELSE 0

\* "n = int(sr * (dur_ms / 1000.0)); out = [0.0] * n": the length of the list
\* (a list repeated a negative number of times is empty)
SynthLen(ms, sr) ==
    IF IntTrunc(sr * ms, 1000) > 0 THEN IntTrunc(sr * ms, 1000) ELSE 0

\* synth_fixed / synth_sweep / synth_noise / synth_fm: the list returned.
\* No parameter is validated and nothing is raised.
Synth(kind, ms, amp, sr, draw) ==
    [kind |-> kind, ms |-> ms, n |-> SynthLen(ms, sr), amp |-> amp,
     draw |-> IF kind = "noise" THEN draw ELSE 0]

\* the concatenation "synth_...(...) + synth_...(...)" of a preset's calls
Parts(name, amp, sr, draw) ==
    [i \in DOMAIN Recipe(name) |->
        Synth(Recipe(name)[i].kind, Recipe(name)[i].ms,
              <<amp * Recipe(name)[i].f[1], 100 * Recipe(name)[i].f[2]>>, sr, draw)]

\* build_variations(amp, sr): the grain of every preset, draw being the state
\* of the random generator at the call
Build(amp, sr, draw) ==
    [name \in Presets |->
        [amp |-> amp, sr |-> sr, parts |-> Parts(name, amp, sr, draw)]]

\* len(grain)
RECURSIVE PartsLen(_)
PartsLen(parts) == IF parts = <<>> THEN 0 ELSE Head(parts).n + PartsLen(Tail(parts))

\* the objects of build number b
Objects(b) == { <<b, name>> : name \in Presets }

\* a faulty build: the lists of the current bank are overwritten in place
HeapAfterBuild_InPlace(grains) ==
    [id \in DOMAIN heap \cup Objects(nbuilds + 1) |->
        IF id[1] >= nbuilds THEN grains[id[2]] ELSE heap[id]]

\* "V = []; mk(...)": every grain of a build is a new list (limit_peak returns
\* a new list); the lists of earlier builds stay as they are
HeapAfterBuild(grains) ==
    [id \in DOMAIN heap \cup Objects(nbuilds + 1) |->
        IF id \in DOMAIN heap THEN heap[id] ELSE grains[id[2]]]

\* "variations = build_variations(cfg.amp, cfg.sr)"
Rebuild(amp, sr) ==
    /\ nbuilds < MaxBuilds
    /\ \E draw \in Draws : heap' = HeapAfterBuild(Build(amp, sr, draw))
    /\ bank' = [name \in Presets |-> <<nbuilds + 1, name>>]
    /\ nbuilds' = nbuilds + 1

\* post_gap=0.80 (in hundredths of a second), silence_flush_ms=240
DefaultCfg ==
    [amp |-> DEFAULT_AMP, sr |-> DEFAULT_SR, cps |-> DEFAULT_CPS,
     pm |-> DEFAULT_PUNCT_MULT, ws |-> FALSE, gap |-> 80, flush |-> 240]

\* main() up to the first print_menu
MenuInit ==
    /\ StreamIdle /\ SchedIdle
    /\ cfg = DefaultCfg
    /\ nbuilds = 1
    /\ \E draw \in Draws :
         heap = [id \in Objects(1) |-> Build(DEFAULT_AMP, DEFAULT_SR, draw)[id[2]]]
    /\ bank = [name \in Presets |-> <<1, name>>]
    /\ choice = "" /\ entry = NoEntry /\ played = <<>>

\* what the user may type at the prompts
CpsInputs   == {0, 10}
PunctInputs == {<<0, 1>>, <<2, 1>>}
AmpInputs   == {24, 150}
SrInputs    == {7999, 8000, 44100}
GapInputs   == {-1, 0}
FlushInputs == {5, 5000}
\* the choices whose handler reads a number with float() or int()
Prompts == {"c", "p", "g", "f", "s", "h"}
\* choices no handler changes the Config or the bank for: L (list) and what
\* falls through to "Unrecognized option.", such as "r"
OtherChoices == {"l", "r"}

\* C) "if v > 0: cfg.cps = v"
MenuSetCps(v) ==
    /\ choice # "q"
    /\ choice' = "c" /\ entry' = [kind |-> "num", v |-> v]
    /\ cfg' = IF v > 0 THEN [cfg EXCEPT !.cps = v] ELSE cfg
    /\ UNCHANGED <<bank, heap, nbuilds, played>>

\* P) "if v > 0: cfg.punct_mult = v"
MenuSetPunct(v) ==
    /\ choice # "q"
    /\ choice' = "p" /\ entry' = [kind |-> "num", v |-> v]
    /\ cfg' = IF v[1] > 0 THEN [cfg EXCEPT !.pm = v] ELSE cfg
    /\ UNCHANGED <<bank, heap, nbuilds, played>>

\* G) "if v >= 0: cfg.post_gap = v"
MenuSetGap(v) ==
    /\ choice # "q"
    /\ choice' = "g" /\ entry' = [kind |-> "num", v |-> v]
    /\ cfg' = IF v >= 0 THEN [cfg EXCEPT !.gap = v] ELSE cfg
    /\ UNCHANGED <<bank, heap, nbuilds, played>>

\* a faulty clamp: the value is taken as typed
ClampFlush_Off(v) == v

\* "v = max(10, min(2000, v))"
ClampFlush(v) == IF v < 10 THEN 10 ELSE IF v > 2000 THEN 2000 ELSE v

\* F) "cfg.silence_flush_ms = v"
MenuSetFlush(v) ==
    /\ choice # "q"
    /\ choice' = "f" /\ entry' = [kind |-> "num", v |-> v]
    /\ cfg' = [cfg EXCEPT !.flush = ClampFlush(v)]
    /\ UNCHANGED <<bank, heap, nbuilds, played>>

\* C, P, G, F, S, H when float() or int() raises: "except Exception: pass"
MenuParseFail(c) ==
    /\ choice # "q"
    /\ choice' = c /\ entry' = [kind |-> "bad", v |-> 0]
    /\ UNCHANGED <<cfg, bank, heap, nbuilds, played>>

\* W) "cfg.include_whitespace = not cfg.include_whitespace"
MenuToggleWs ==
    /\ choice # "q"
    /\ choice' = "w" /\ entry' = NoEntry
    /\ cfg' = [cfg EXCEPT !.ws = ~cfg.ws]
    /\ UNCHANGED <<bank, heap, nbuilds, played>>

\* "v = max(0.01, min(1.0, v))"
ClampAmp(v) == IF v < 1 THEN 1 ELSE IF v > 100 THEN 100 ELSE v

\* S) "cfg.amp = v; variations = build_variations(cfg.amp, cfg.sr)"
MenuSetAmp(v) ==
    /\ choice # "q"
    /\ choice' = "s" /\ entry' = [kind |-> "num", v |-> v]
    /\ cfg' = [cfg EXCEPT !.amp = ClampAmp(v)]
    /\ Rebuild(ClampAmp(v), cfg.sr)
    /\ UNCHANGED played

\* a faulty handler: the sample rate is set and the bank is not rebuilt
MenuSetSr_NoRebuild(v) ==
    /\ choice # "q"
    /\ choice' = "h" /\ entry' = [kind |-> "num", v |-> v]
    /\ cfg' = IF v >= 8000 /\ v <= 192000 THEN [cfg EXCEPT !.sr = v] ELSE cfg
    /\ UNCHANGED <<bank, heap, nbuilds, played>>

\* H) "if v >= 8000 and v <= 192000: cfg.sr = v; variations = build_variations(...)"
MenuSetSr(v) ==
    /\ choice # "q"
    /\ choice' = "h" /\ entry' = [kind |-> "num", v |-> v]
    /\ IF v >= 8000 /\ v <= 192000
       THEN /\ cfg' = [cfg EXCEPT !.sr = v]
            /\ Rebuild(cfg.amp, v)
       ELSE UNCHANGED <<cfg, bank, heap, nbuilds>>
    /\ UNCHANGED played

\* a number or a preset's name: play_variation -> play_line ->
\* render_line_audio(text, var, cfg.sr, ...), play_line_async(samples, cfg.sr, ...)
MenuPlay(name) ==
    /\ choice # "q"
    /\ choice' = "play" /\ entry' = NoEntry
    /\ played' = [sr |-> cfg.sr, amp |-> cfg.amp,
                  gsr |-> heap[bank[name]].sr, gamp |-> heap[bank[name]].amp]
    /\ UNCHANGED <<cfg, bank, heap, nbuilds>>

\* L and every choice that reaches "Unrecognized option.", R among them
MenuOther(c) ==
    /\ choice # "q"
    /\ choice' = c /\ entry' = NoEntry
    /\ UNCHANGED <<cfg, bank, heap, nbuilds, played>>

\* Q) "print("Goodbye."); break"
MenuQuit ==
    /\ choice # "q"
    /\ choice' = "q" /\ entry' = NoEntry
    /\ UNCHANGED <<cfg, bank, heap, nbuilds, played>>

MenuNext ==
    /\ \/ \E v \in CpsInputs : MenuSetCps(v)
       \/ \E v \in PunctInputs : MenuSetPunct(v)
       \/ MenuToggleWs
       \/ \E v \in AmpInputs : MenuSetAmp(v)
       \/ \E v \in SrInputs : MenuSetSr(v)
       \/ \E name \in Presets : MenuPlay(name)
       \/ \E c \in OtherChoices : MenuOther(c)
       \/ MenuQuit
    /\ UNCHANGED <<streamVars, schedVars>>

MenuSpec == MenuInit /\ [][MenuNext]_vars

\* The menu loop with every handler that sets a field of the Config, the
\* failures of float() and int() included, and without the playing of lines
\* (which changes neither the Config nor the bank).
ConfigNext ==
    /\ \/ \E v \in CpsInputs : MenuSetCps(v)
       \/ \E v \in PunctInputs : MenuSetPunct(v)
       \/ MenuToggleWs
       \/ \E v \in GapInputs : MenuSetGap(v)
       \/ \E v \in FlushInputs : MenuSetFlush(v)
       \/ \E c \in Prompts : MenuParseFail(c)
       \/ \E v \in AmpInputs : MenuSetAmp(v)
       \/ \E v \in SrInputs : MenuSetSr(v)
       \/ \E c \in OtherChoices : MenuOther(c)
       \/ MenuQuit
    /\ UNCHANGED <<streamVars, schedVars>>

ConfigSpec == MenuInit /\ [][ConfigNext]_vars

(***************************************************************************)
(* Calls of the synthesis functions and of pcm16_bytes (blip.py) on        *)
(* arguments drawn from bounded sets; stage, sIn and sOut hold the call.   *)
(* A sample of the PCM encoder is the rational k/PcmDen, held as k.        *)
(***************************************************************************)
PcmDen == 8             \* samples are multiples of 1/PcmDen
MaxPcmLen == 2          \* samples in one call of pcm16_bytes

\* "lo if x < lo else hi if x > hi else x" with lo=-1.0, hi=1.0
Clamp(k) == IF k < -PcmDen THEN -PcmDen ELSE IF k > PcmDen THEN PcmDen ELSE k

\* a faulty quantiser: rounded to the nearest integer
Quantize_Round(k) ==
    IF Clamp(k) >= 0 THEN (2 * Clamp(k) * 32767 + PcmDen) \div (2 * PcmDen)
    ELSE -((2 * (-Clamp(k)) * 32767 + PcmDen) \div (2 * PcmDen))

\* "int(clamp(s) * 32767)"
Quantize(k) == IntTrunc(Clamp(k) * 32767, PcmDen)

\* struct.pack("<h", v): two's complement, low byte first
Pack16(v) == << (v % 65536) % 256, (v % 65536) \div 256 >>

\* pcm16_bytes(samples)
RECURSIVE Pcm16Bytes(_)
Pcm16Bytes(samples) ==
    IF samples = <<>> THEN <<>>
    ELSE Pack16(Quantize(Head(samples))) \o Pcm16Bytes(Tail(samples))

RECURSIVE SamplesUpTo(_)
SamplesUpTo(n) ==
    IF n = 0 THEN {<<>>}
    ELSE SamplesUpTo(n - 1)
           \cup { Append(a, k) : a \in SamplesUpTo(n - 1), k \in (-PcmDen - 2)..(PcmDen + 2) }

PcmInputs == [fn : {"pcm"}, samples : SamplesUpTo(MaxPcmLen)]

SynthInputs ==
    [fn : {"synth"}, kind : {"fixed", "sweep", "noise", "fm"},
     ms : {-5, 0, 18, 55}, sr : {-1000, 0, 8000, 44100}, draw : Draws]

(***************************************************************************)
(* The three copies of the variation table, as written in the sources.     *)
(* A part is one synthesis call: duty in thousandths, vrate in tenths of a *)
(* Hz, vdepth, alpha and the amplitude factor ampf in hundredths, ratio    *)
(* and index in tenths.                                                    *)
(***************************************************************************)
BlipTable ==
    << [name |-> "pulse25_mid",
        parts |-> << [kind |-> "fixed", f |-> 820, ms |-> 55, wf |-> "pulse", duty |-> 250, vrate |-> 0, vdepth |-> 0, ampf |-> 100] >>],
       [name |-> "pulse12_bright",
        parts |-> << [kind |-> "fixed", f |-> 920, ms |-> 55, wf |-> "pulse", duty |-> 125, vrate |-> 0, vdepth |-> 0, ampf |-> 100] >>],
       [name |-> "triangle_soft",
        parts |-> << [kind |-> "fixed", f |-> 600, ms |-> 55, wf |-> "triangle", duty |-> 250, vrate |-> 0, vdepth |-> 0, ampf |-> 100] >>],
       [name |-> "saw_buzzy",
        parts |-> << [kind |-> "fixed", f |-> 700, ms |-> 55, wf |-> "saw", duty |-> 250, vrate |-> 0, vdepth |-> 0, ampf |-> 100] >>],
       [name |-> "sine_up_sweep",
        parts |-> << [kind |-> "sweep", f0 |-> 650, f1 |-> 900, ms |-> 70, wf |-> "sine", ampf |-> 100] >>],
       [name |-> "sine_down_sweep",
        parts |-> << [kind |-> "sweep", f0 |-> 950, f1 |-> 650, ms |-> 70, wf |-> "sine", ampf |-> 100] >>],
       [name |-> "pulse_vibrato",
        parts |-> << [kind |-> "fixed", f |-> 850, ms |-> 60, wf |-> "pulse", duty |-> 250, vrate |-> 80, vdepth |-> 6, ampf |-> 100] >>],
       [name |-> "noise_click",
        parts |-> << [kind |-> "noise", ms |-> 40, alpha |-> 22, ampf |-> 90] >>],
       [name |-> "two_tone",
        parts |-> << [kind |-> "fixed", f |-> 700, ms |-> 26, wf |-> "sine", duty |-> 250, vrate |-> 0, vdepth |-> 0, ampf |-> 100],
                     [kind |-> "fixed", f |-> 950, ms |-> 26, wf |-> "sine", duty |-> 250, vrate |-> 0, vdepth |-> 0, ampf |-> 100] >>],
       [name |-> "arp_chiptune",
        parts |-> << [kind |-> "fixed", f |-> 500, ms |-> 18, wf |-> "pulse", duty |-> 250, vrate |-> 0, vdepth |-> 0, ampf |-> 100],
                     [kind |-> "fixed", f |-> 650, ms |-> 18, wf |-> "pulse", duty |-> 250, vrate |-> 0, vdepth |-> 0, ampf |-> 100],
                     [kind |-> "fixed", f |-> 820, ms |-> 18, wf |-> "pulse", duty |-> 250, vrate |-> 0, vdepth |-> 0, ampf |-> 100] >>],
       [name |-> "ct_snes_pulse",
        parts |-> << [kind |-> "fixed", f |-> 840, ms |-> 45, wf |-> "pulse", duty |-> 250, vrate |-> 0, vdepth |-> 0, ampf |-> 95] >>],
       [name |-> "eb_snes_blip",
        parts |-> << [kind |-> "fixed", f |-> 680, ms |-> 50, wf |-> "triangle", duty |-> 0, vrate |-> 0, vdepth |-> 0, ampf |-> 100] >>],
       [name |-> "ff6_snes_tri",
        parts |-> << [kind |-> "fixed", f |-> 610, ms |-> 55, wf |-> "triangle", duty |-> 0, vrate |-> 0, vdepth |-> 0, ampf |-> 100] >>],
       [name |-> "pkmn_gb_square12",
        parts |-> << [kind |-> "fixed", f |-> 980, ms |-> 60, wf |-> "pulse", duty |-> 125, vrate |-> 0, vdepth |-> 0, ampf |-> 100] >>],
       [name |-> "dq_nes_square50",
        parts |-> << [kind |-> "fixed", f |-> 440, ms |-> 45, wf |-> "pulse", duty |-> 500, vrate |-> 0, vdepth |-> 0, ampf |-> 100] >>],
       [name |-> "fe_gba_click",
        parts |-> << [kind |-> "noise", ms |-> 24, alpha |-> 10, ampf |-> 80],
                     [kind |-> "fixed", f |-> 800, ms |-> 18, wf |-> "sine", duty |-> 0, vrate |-> 0, vdepth |-> 0, ampf |-> 75] >>],
       [name |-> "gs_gba_saw",
        parts |-> << [kind |-> "fixed", f |-> 720, ms |-> 55, wf |-> "saw", duty |-> 0, vrate |-> 0, vdepth |-> 0, ampf |-> 100] >>],
       [name |-> "pm_n64_chirp",
        parts |-> << [kind |-> "sweep", f0 |-> 500, f1 |-> 860, ms |-> 48, wf |-> "sine", ampf |-> 100] >>],
       [name |-> "ps4_gen_fm",
        parts |-> << [kind |-> "fm", fc |-> 600, ratio |-> 20, index |-> 12, ms |-> 55, ampf |-> 100] >>],
       [name |-> "ut_default_blip",
        parts |-> << [kind |-> "fixed", f |-> 760, ms |-> 36, wf |-> "pulse", duty |-> 250, vrate |-> 140, vdepth |-> 5, ampf |-> 100] >>] >>

OllamaTable ==
    << [name |-> "pulse25_mid",
        parts |-> << [kind |-> "fixed", f |-> 820, ms |-> 55, wf |-> "pulse", duty |-> 250, vrate |-> 0, vdepth |-> 0, ampf |-> 100] >>],
       [name |-> "pulse12_bright",
        parts |-> << [kind |-> "fixed", f |-> 920, ms |-> 55, wf |-> "pulse", duty |-> 125, vrate |-> 0, vdepth |-> 0, ampf |-> 100] >>],
       [name |-> "triangle_soft",
        parts |-> << [kind |-> "fixed", f |-> 600, ms |-> 55, wf |-> "tri", duty |-> 250, vrate |-> 0, vdepth |-> 0, ampf |-> 100] >>],
       [name |-> "saw_buzzy",
        parts |-> << [kind |-> "fixed", f |-> 700, ms |-> 55, wf |-> "saw", duty |-> 250, vrate |-> 0, vdepth |-> 0, ampf |-> 100] >>],
       [name |-> "sine_up_sweep",
        parts |-> << [kind |-> "sweep", f0 |-> 650, f1 |-> 900, ms |-> 70, wf |-> "sine", ampf |-> 100] >>],
       [name |-> "sine_down_sweep",
        parts |-> << [kind |-> "sweep", f0 |-> 950, f1 |-> 650, ms |-> 70, wf |-> "sine", ampf |-> 100] >>],
       [name |-> "pulse_vibrato",
        parts |-> << [kind |-> "fixed", f |-> 850, ms |-> 60, wf |-> "pulse", duty |-> 250, vrate |-> 80, vdepth |-> 6, ampf |-> 100] >>],
       [name |-> "noise_click",
        parts |-> << [kind |-> "noise", ms |-> 40, alpha |-> 22, ampf |-> 90] >>],
       [name |-> "two_tone",
        parts |-> << [kind |-> "fixed", f |-> 700, ms |-> 26, wf |-> "sine", duty |-> 250, vrate |-> 0, vdepth |-> 0, ampf |-> 100],
                     [kind |-> "fixed", f |-> 950, ms |-> 26, wf |-> "sine", duty |-> 0, vrate |-> 0, vdepth |-> 0, ampf |-> 100] >>],
       [name |-> "arp_chiptune",
        parts |-> << [kind |-> "fixed", f |-> 500, ms |-> 18, wf |-> "pulse", duty |-> 250, vrate |-> 0, vdepth |-> 0, ampf |-> 100],
                     [kind |-> "fixed", f |-> 650, ms |-> 18, wf |-> "pulse", duty |-> 0, vrate |-> 0, vdepth |-> 0, ampf |-> 100],
                     [kind |-> "fixed", f |-> 820, ms |-> 18, wf |-> "pulse", duty |-> 0, vrate |-> 0, vdepth |-> 0, ampf |-> 100] >>],
       [name |-> "ct_snes_pulse",
        parts |-> << [kind |-> "fixed", f |-> 840, ms |-> 45, wf |-> "pulse", duty |-> 250, vrate |-> 0, vdepth |-> 0, ampf |-> 95] >>],
       [name |-> "eb_snes_blip",
        parts |-> << [kind |-> "fixed", f |-> 680, ms |-> 50, wf |-> "tri", duty |-> 0, vrate |-> 0, vdepth |-> 0, ampf |-> 100] >>],
       [name |-> "ff6_snes_tri",
        parts |-> << [kind |-> "fixed", f |-> 610, ms |-> 55, wf |-> "tri", duty |-> 0, vrate |-> 0, vdepth |-> 0, ampf |-> 100] >>],
       [name |-> "pkmn_gb_square12",
        parts |-> << [kind |-> "fixed", f |-> 980, ms |-> 60, wf |-> "pulse", duty |-> 125, vrate |-> 0, vdepth |-> 0, ampf |-> 100] >>],
       [name |-> "dq_nes_square50",
        parts |-> << [kind |-> "fixed", f |-> 440, ms |-> 45, wf |-> "pulse", duty |-> 500, vrate |-> 0, vdepth |-> 0, ampf |-> 100] >>],
       [name |-> "fe_gba_click",
        parts |-> << [kind |-> "noise", ms |-> 24, alpha |-> 10, ampf |-> 80],
                     [kind |-> "fixed", f |-> 800, ms |-> 18, wf |-> "sine", duty |-> 0, vrate |-> 0, vdepth |-> 0, ampf |-> 75] >>],
       [name |-> "gs_gba_saw",
        parts |-> << [kind |-> "fixed", f |-> 720, ms |-> 55, wf |-> "saw", duty |-> 0, vrate |-> 0, vdepth |-> 0, ampf |-> 100] >>],
       [name |-> "pm_n64_chirp",
        parts |-> << [kind |-> "sweep", f0 |-> 500, f1 |-> 860, ms |-> 48, wf |-> "sine", ampf |-> 100] >>],
       [name |-> "ps4_gen_fm",
        parts |-> << [kind |-> "fm", fc |-> 600, ratio |-> 20, index |-> 12, ms |-> 55, ampf |-> 100] >>],
       [name |-> "ut_default_blip",
        parts |-> << [kind |-> "fixed", f |-> 760, ms |-> 36, wf |-> "pulse", duty |-> 250, vrate |-> 140, vdepth |-> 5, ampf |-> 100] >>] >>

MiniTable ==
    << [name |-> "pulse25_mid",
        parts |-> << [kind |-> "fixed", f |-> 820, ms |-> 55, wf |-> "pulse", duty |-> 250, vrate |-> 0, vdepth |-> 0, ampf |-> 100] >>],
       [name |-> "pulse12_bright",
        parts |-> << [kind |-> "fixed", f |-> 920, ms |-> 55, wf |-> "pulse", duty |-> 125, vrate |-> 0, vdepth |-> 0, ampf |-> 100] >>],
       [name |-> "triangle_soft",
        parts |-> << [kind |-> "fixed", f |-> 600, ms |-> 55, wf |-> "tri", duty |-> 250, vrate |-> 0, vdepth |-> 0, ampf |-> 100] >>],
       [name |-> "saw_buzzy",
        parts |-> << [kind |-> "fixed", f |-> 700, ms |-> 55, wf |-> "saw", duty |-> 250, vrate |-> 0, vdepth |-> 0, ampf |-> 100] >>],
       [name |-> "sine_up_sweep",
        parts |-> << [kind |-> "sweep", f0 |-> 650, f1 |-> 900, ms |-> 70, wf |-> "sine", ampf |-> 100] >>],
       [name |-> "sine_down_sweep",
        parts |-> << [kind |-> "sweep", f0 |-> 950, f1 |-> 650, ms |-> 70, wf |-> "sine", ampf |-> 100] >>],
       [name |-> "pulse_vibrato",
        parts |-> << [kind |-> "fixed", f |-> 850, ms |-> 60, wf |-> "pulse", duty |-> 250, vrate |-> 80, vdepth |-> 6, ampf |-> 100] >>],
       [name |-> "noise_click",
        parts |-> << [kind |-> "noise", ms |-> 40, alpha |-> 22, ampf |-> 90] >>],
       [name |-> "two_tone",
        parts |-> << [kind |-> "fixed", f |-> 700, ms |-> 26, wf |-> "sine", duty |-> 250, vrate |-> 0, vdepth |-> 0, ampf |-> 100],
                     [kind |-> "fixed", f |-> 950, ms |-> 26, wf |-> "sine", duty |-> 250, vrate |-> 0, vdepth |-> 0, ampf |-> 100] >>],
       [name |-> "arp_chiptune",
        parts |-> << [kind |-> "fixed", f |-> 500, ms |-> 18, wf |-> "pulse", duty |-> 250, vrate |-> 0, vdepth |-> 0, ampf |-> 100],
                     [kind |-> "fixed", f |-> 650, ms |-> 18, wf |-> "pulse", duty |-> 250, vrate |-> 0, vdepth |-> 0, ampf |-> 100],
                     [kind |-> "fixed", f |-> 820, ms |-> 18, wf |-> "pulse", duty |-> 250, vrate |-> 0, vdepth |-> 0, ampf |-> 100] >>],
       [name |-> "ct_snes_pulse",
        parts |-> << [kind |-> "fixed", f |-> 840, ms |-> 45, wf |-> "pulse", duty |-> 250, vrate |-> 0, vdepth |-> 0, ampf |-> 95] >>],
       [name |-> "eb_snes_blip",
        parts |-> << [kind |-> "fixed", f |-> 680, ms |-> 50, wf |-> "tri", duty |-> 0, vrate |-> 0, vdepth |-> 0, ampf |-> 100] >>],
       [name |-> "ff6_snes_tri",
        parts |-> << [kind |-> "fixed", f |-> 610, ms |-> 55, wf |-> "tri", duty |-> 0, vrate |-> 0, vdepth |-> 0, ampf |-> 100] >>],
       [name |-> "pkmn_gb_square12",
        parts |-> << [kind |-> "fixed", f |-> 980, ms |-> 60, wf |-> "pulse", duty |-> 125, vrate |-> 0, vdepth |-> 0, ampf |-> 100] >>],
       [name |-> "dq_nes_square50",
        parts |-> << [kind |-> "fixed", f |-> 440, ms |-> 45, wf |-> "pulse", duty |-> 500, vrate |-> 0, vdepth |-> 0, ampf |-> 100] >>],
       [name |-> "fe_gba_click",
        parts |-> << [kind |-> "noise", ms |-> 24, alpha |-> 10, ampf |-> 80],
                     [kind |-> "fixed", f |-> 800, ms |-> 18, wf |-> "sine", duty |-> 0, vrate |-> 0, vdepth |-> 0, ampf |-> 75] >>],
       [name |-> "gs_gba_saw",
        parts |-> << [kind |-> "fixed", f |-> 720, ms |-> 55, wf |-> "saw", duty |-> 0, vrate |-> 0, vdepth |-> 0, ampf |-> 100] >>],
       [name |-> "pm_n64_chirp",
        parts |-> << [kind |-> "sweep", f0 |-> 500, f1 |-> 860, ms |-> 48, wf |-> "sine", ampf |-> 100] >>],
       [name |-> "ps4_gen_fm",
        parts |-> << [kind |-> "fm", fc |-> 600, ratio |-> 20, index |-> 12, ms |-> 55, ampf |-> 100] >>],
       [name |-> "ut_default_blip",
        parts |-> << [kind |-> "fixed", f |-> 760, ms |-> 36, wf |-> "pulse", duty |-> 250, vrate |-> 140, vdepth |-> 5, ampf |-> 100] >>] >>

Files == {"blip", "ollamablip", "miniblip"}

Table(file) ==
    CASE file = "blip"       -> BlipTable
      [] file = "ollamablip" -> OllamaTable
      [] file = "miniblip"   -> MiniTable

\* the branch of "if waveform == ..." the file's fixed-pitch synthesis takes:
\* blip.py falls back to the sine, the two other files to the pulse
BranchOf(file, wf) ==
    IF file = "blip"
    THEN IF wf \in {"sine", "triangle", "saw", "pulse"} THEN wf ELSE "sine"
    ELSE CASE wf = "sine" -> "sine"
           [] wf = "tri"  -> "triangle"
           [] wf = "saw"  -> "saw"
           [] OTHER       -> "pulse"

\* what of a part the samples depend on: the duty cycle is read by the pulse
\* branch only ("v = 1.0 if p < duty else -1.0"), the vibrato depth only
\* "if vibrato_rate > 0"
Sounding(file, part) ==
    IF part.kind = "fixed"
    THEN [kind |-> "fixed", f |-> part.f, ms |-> part.ms,
          wf |-> BranchOf(file, part.wf),
          duty |-> IF BranchOf(file, part.wf) = "pulse" THEN part.duty ELSE 0,
          vrate |-> IF part.vrate > 0 THEN part.vrate ELSE 0,
          vdepth |-> IF part.vrate > 0 THEN part.vdepth ELSE 0,
          ampf |-> part.ampf]
    ELSE part

\* entry k of the list the file's build function returns
BuildEntry(file, k) ==
    [name |-> Table(file)[k].name,
     parts |-> [i \in DOMAIN Table(file)[k].parts |-> Sounding(file, Table(file)[k].parts[i])]]

BuildInputs == [fn : {"build"}, file : Files, k : DOMAIN BlipTable]

\* the scheduler of the file: schedule_beeps_for_line (blip.py), schedule
\* (ollamablip.py), sched (miniblip.py) hold the same statements
ScheduleIn(file, text, cps, pm, ws, glen, sr) == Schedule(text, cps, pm, ws, glen, sr)

ScheduleInInputs ==
    [fn : {"schedule"}, file : Files, text : TextsUpTo(MaxLen), cps : CpsValues,
     pm : PunctMults, ws : BOOLEAN, glen : {2}, sr : {1000}]

MaxLimLen == 3          \* samples in one call of limit_peak

\* sample values of the limiter's input, in units of 1/GrainUnit
LimValues == {-8, -3, 0, 2, 8}

RECURSIVE LimSamplesUpTo(_)
LimSamplesUpTo(n) ==
    IF n = 0 THEN {<<>>}
    ELSE LimSamplesUpTo(n - 1)
           \cup { Append(a, k) : a \in LimSamplesUpTo(n - 1), k \in LimValues }

\* the ceilings limit_peak is called with: the default 0.98 and the renderer's 0.95
Ceilings == { <<49, 50>>, <<19, 20>> }

LimitInputs ==
    [fn : {"limit"}, samples : LimSamplesUpTo(MaxLimLen), ceil : Ceilings, dc : BOOLEAN]

DspInit ==
    /\ StreamIdle /\ MenuIdle
    /\ stage = "in"
    /\ sIn \in PcmInputs \cup SynthInputs \cup LimitInputs \cup BuildInputs \cup ScheduleInInputs
    /\ sOut = <<>> /\ rOut = <<>>

\* a call of synth_fixed / synth_sweep / synth_noise / synth_fm with amp = DEFAULT_AMP:
\* whatever the arguments, the call returns a list
CallSynth ==
    /\ stage = "in" /\ sIn.fn = "synth"
    /\ sOut' = [raised |-> FALSE,
                value |-> Synth(sIn.kind, sIn.ms, <<DEFAULT_AMP, 100>>, sIn.sr, sIn.draw)]
    /\ stage' = "synth"
    /\ UNCHANGED <<sIn, rOut, streamVars, menuVars>>

\* a call of pcm16_bytes
CallPcm ==
    /\ stage = "in" /\ sIn.fn = "pcm"
    /\ sOut' = Pcm16Bytes(sIn.samples)
    /\ stage' = "encoded"
    /\ UNCHANGED <<sIn, rOut, streamVars, menuVars>>

\* a call of limit_peak
CallLimit ==
    /\ stage = "in" /\ sIn.fn = "limit"
    /\ \E e \in RoundErr :
         sOut' = LimitPeak([num |-> sIn.samples, den |-> GrainUnit, err |-> 0],
                           sIn.ceil, sIn.dc, e)
    /\ stage' = "limited"
    /\ UNCHANGED <<sIn, rOut, streamVars, menuVars>>

\* limit_peak called on what the first call returned, with the same arguments
CallLimitAgain ==
    /\ stage = "limited"
    /\ \E e \in RoundErr : rOut' = LimitPeak(sOut, sIn.ceil, sIn.dc, e)
    /\ stage' = "relimited"
    /\ UNCHANGED <<sIn, sOut, streamVars, menuVars>>

\* entry k of build_variations(amp, sr) / build_vars(amp, sr) of a file
CallBuild ==
    /\ stage = "in" /\ sIn.fn = "build"
    /\ sOut' = BuildEntry(sIn.file, sIn.k)
    /\ stage' = "built"
    /\ UNCHANGED <<sIn, rOut, streamVars, menuVars>>

\* a call of the scheduler of a file
CallScheduleIn ==
    /\ stage = "in" /\ sIn.fn = "schedule"
    /\ sOut' = ScheduleIn(sIn.file, sIn.text, sIn.cps, sIn.pm, sIn.ws, sIn.glen, sIn.sr)
    /\ stage' = "scheduled_in"
    /\ UNCHANGED <<sIn, rOut, streamVars, menuVars>>

DspNext == CallSynth \/ CallPcm \/ CallLimit \/ CallLimitAgain \/ CallBuild \/ CallScheduleIn

DspSpec == DspInit /\ [][DspNext]_vars

\* Fairness: the worker thread and the main thread keep being scheduled while
\* they can take a step, and a playback in progress comes to its end.
FairSpec == Spec /\ WF_vars(Worker) /\ WF_vars(PlaybackEnds)

(***************************************************************************)
(* Helpers of the claims.                                                  *)
(***************************************************************************)
Range(s) == { s[i] : i \in DOMAIN s }

\* the raw texts of the fragments enqueued so far, concatenated
RECURSIVE RawText(_)
RawText(frags) ==
    IF frags = <<>> THEN <<>> ELSE Head(frags).raw \o RawText(Tail(frags))

\* the worker is between two plays: every wait_done issued so far has returned
AfterWait == wpc \notin {"wait", "flush_wait"}

(***************************************************************************)
(* C1: fragments are played in exactly the order they were enqueued: the   *)
(* k-th play_async the worker issues for a fragment is for the k-th        *)
(* fragment passed to enqueue.                                             *)
(***************************************************************************)
C1_FifoOrder == \A i \in DOMAIN started : started[i] = i

\* two fragments were waiting in the queue together and both have been played
C1_Witness == Len(started) >= 2 /\ Len(enq) >= 2

(***************************************************************************)
(* C2: no two playbacks are ever in progress at the same time.             *)
(***************************************************************************)
C2_NoOverlap == Cardinality(playing) <= 1

(***************************************************************************)
(* C3: when the worker has stopped, every fragment that was enqueued       *)
(* before close() has been played.                                         *)
(***************************************************************************)
C3_QueuedFragmentsPlayed ==
    (wpc = "done") => \A i \in 1..Len(enq) : i \in Range(started)

(***************************************************************************)
(* C4: once main has left the stream loop and closed the worker, every     *)
(* chunk received is in exactly one enqueued fragment, in arrival order:   *)
(* the fragments' raw texts concatenated are the text received.            *)
(***************************************************************************)
C4_EveryChunkEnqueued ==
    (mpc \in {"join", "done"}) => RawText(enq) = printed

C7_ArtifactsRemoved == AfterWait => (files = {} /\ path = None)

(***************************************************************************)
(* Helpers of the scheduler's and the renderer's claims.                   *)
(***************************************************************************)
\* the magnitude of sample i of a is at most ceil[1]/ceil[2] * (1 + slack*u)
WithinCeiling(a, i, ceil, slack) ==
    \/ Abs(a.num[i]) * ceil[2] < ceil[1] * a.den
    \/ Abs(a.num[i]) * ceil[2] = ceil[1] * a.den /\ a.err <= slack

\* the mix before limiting exceeds the ceiling at some sample
MixPeak(in) ==
    MaxAbs(MixLoop([j \in 1..Schedule(in.text, in.cps, in.pm, in.ws, Len(in.grain), in.sr).total |-> 0],
                   in.grain,
                   Schedule(in.text, in.cps, in.pm, in.ws, Len(in.grain), in.sr).starts))

(***************************************************************************)
(* C8 (as claimed): every sample of the buffer the line renderer returns   *)
(* has absolute value at most 0.95.                                        *)
(***************************************************************************)
C8_PeakAtMostCeiling ==
    (stage = "rendered") =>
        \A i \in DOMAIN rOut.num : WithinCeiling(rOut, i, RenderCeiling, 0)

(***************************************************************************)
(* C8 (amended): every sample of the buffer the line renderer returns has  *)
(* absolute value at most 0.95 up to one rounding error of the scale       *)
(* factor, 0.95 * (1 + u), however many grains overlap.                    *)
(***************************************************************************)
C8_PeakWithinRounding ==
    (stage = "rendered") =>
        \A i \in DOMAIN rOut.num : WithinCeiling(rOut, i, RenderCeiling, 1)

\* overlapping grains add up to more than 1.0 before limiting, and the limiter scaled
C8_Witness ==
    /\ stage = "rendered"
    /\ MixPeak(sIn) > GrainUnit
    /\ \E i \in DOMAIN rOut.num : Abs(rOut.num[i]) * RenderCeiling[2] = RenderCeiling[1] * rOut.den

C10_Input(in) ==
    /\ in.text = <<"a", ".", "b">> /\ in.cps = <<10, 1>> /\ in.pm = <<2, 1>>
    /\ in.ws = FALSE /\ in.sr = 1000

C10_PunctuationPause ==
    (stage = "scheduled" /\ C10_Input(sIn)) => sOut.starts = <<0, 100, 300>>

C10_Witness == stage = "scheduled" /\ C10_Input(sIn) /\ sOut.starts[3] = 300

(***************************************************************************)
(* C11: the number of onsets is the number of non-whitespace characters    *)
(* when include_whitespace is false and the number of characters when it   *)
(* is true, and the cursor advances for every character in both cases:     *)
(* "a b" (cps=10, sr=1000) gives the onsets 0, 200 with the flag off and   *)
(* 0, 100, 200 with it on.                                                 *)
(***************************************************************************)
C11_Input(in) == in.text = <<"a", " ", "b">> /\ in.cps = <<10, 1>> /\ in.sr = 1000

C11_OnsetCount ==
    (stage \in {"scheduled", "rendered"}) =>
        /\ Len(sOut.starts) =
             Cardinality({i \in DOMAIN sIn.text : sIn.ws \/ sIn.text[i] # " "})
        /\ C11_Input(sIn) =>
             sOut.starts = IF sIn.ws THEN <<0, 100, 200>> ELSE <<0, 200>>

\* "a b" scheduled with the whitespace flag off: two onsets, the second after two steps
C11_Witness ==
    stage = "scheduled" /\ C11_Input(sIn) /\ ~sIn.ws /\ sOut.starts = <<0, 200>>

(***************************************************************************)
(* C14: whenever a play call has returned, it has either started the       *)
(* playback or written the terminal bell as fallback.                      *)
(***************************************************************************)
C14_BellFallback == sink # "silent"

(***************************************************************************)
(* Helpers of the menu program's claims.                                   *)
(***************************************************************************)
\* Python's round() of the quotient num/den (num >= 0, den > 0): nearest, ties to even
RoundNearest(num, den) ==
    IF 2 * (num % den) < den THEN num \div den
    ELSE IF 2 * (num % den) > den THEN (num \div den) + 1
    ELSE IF (num \div den) % 2 = 0 THEN num \div den ELSE (num \div den) + 1

\* the grain the current bank holds for a preset
BankGrain(name) == heap[bank[name]]

(***************************************************************************)
(* C12: a build of the Variation Bank with the amplitude and sample rate   *)
(* of the previous build yields, for every preset, a grain identical to    *)
(* the previous one, the noise-based presets included.                     *)
(***************************************************************************)
C12_BankDeterministic ==
    [][(nbuilds' # nbuilds /\ cfg'.amp = cfg.amp /\ cfg'.sr = cfg.sr)
         => \A name \in Presets : heap'[bank'[name]] = heap[bank[name]]]_vars

(***************************************************************************)
(* C16 (as claimed): every synthesis call returns                          *)
(* round(sampleRate * durationMs / 1000) samples, and a concatenated       *)
(* preset has the sum: the arpeggio at 44100 has 3 * round(793.8) = 2382.  *)
(***************************************************************************)
C16_RoundedLengths ==
    \A name \in Presets :
        /\ \A i \in DOMAIN BankGrain(name).parts :
             BankGrain(name).parts[i].n =
                 RoundNearest(BankGrain(name).sr * Recipe(name)[i].ms, 1000)
        /\ (name = "arp_chiptune" /\ BankGrain(name).sr = 44100)
             => PartsLen(BankGrain(name).parts) = 3 * RoundNearest(44100 * 18, 1000)

(***************************************************************************)
(* C16 (amended): every synthesis call returns the product                 *)
(* sampleRate * durationMs / 1000 truncated to an integer (n <= product    *)
(* < n + 1), and a concatenated preset has the sum of its parts: the       *)
(* arpeggio at 44100 has 3 * 793 = 2379 samples.                           *)
(***************************************************************************)
C16_TruncatedLengths ==
    \A name \in Presets :
        /\ \A i \in DOMAIN BankGrain(name).parts :
             /\ BankGrain(name).parts[i].n * 1000 <= BankGrain(name).sr * Recipe(name)[i].ms
             /\ BankGrain(name).sr * Recipe(name)[i].ms < (BankGrain(name).parts[i].n + 1) * 1000
        /\ (name = "arp_chiptune" /\ BankGrain(name).sr = 44100)
             => PartsLen(BankGrain(name).parts) = 2379

\* the bank built at 44100: the arpeggio's three 18 ms parts have 793 samples each
C16_Witness ==
    /\ cfg.sr = 44100 /\ nbuilds >= 1
    /\ PartsLen(BankGrain("arp_chiptune").parts) = 2379
    /\ BankGrain("arp_chiptune").parts[1].n = 793

(***************************************************************************)
(* C17: no operation of the menu program (a rebuild of the bank at a new   *)
(* sample rate or amplitude, the rendering of a line) changes a grain      *)
(* object that exists: the grains of earlier banks keep their samples.     *)
(***************************************************************************)
C17_GrainsImmutable ==
    [][\A id \in DOMAIN heap : id \in DOMAIN heap' /\ heap'[id] = heap[id]]_vars

\* the bank was rebuilt at another sample rate, a line was rendered with a new
\* grain, and the grain of the first bank is still there
C17_Witness ==
    /\ nbuilds >= 2 /\ choice = "play"
    /\ <<1, "arp_chiptune">> \in DOMAIN heap
    /\ bank["arp_chiptune"] # <<1, "arp_chiptune">>
    /\ heap[<<1, "arp_chiptune">>].sr # cfg.sr

(***************************************************************************)
(* C18: after any sequence of menu operations every grain of the bank was  *)
(* built with the configured amplitude and sample rate, and every line was *)
(* rendered at the sample rate and amplitude its grain was built with.     *)
(***************************************************************************)
C18_BankMatchesConfig ==
    /\ \A name \in Presets :
         BankGrain(name).sr = cfg.sr /\ BankGrain(name).amp = cfg.amp
    /\ played # <<>> => (played.sr = played.gsr /\ played.amp = played.gamp)

\* a line was played after the sample rate and the amplitude were changed
C18_Witness ==
    /\ choice = "play" /\ nbuilds >= 3
    /\ cfg.sr # DEFAULT_SR /\ cfg.amp # DEFAULT_AMP
    /\ played.sr = cfg.sr /\ played.amp = cfg.amp

(***************************************************************************)
(* C19: once the menu choice R has been handled the configuration is the   *)
(* defaults.                                                               *)
(***************************************************************************)
C19_ResetRestoresDefaults == (choice = "r") => cfg = DefaultCfg

(***************************************************************************)
(* Helpers of C20: the time cursor and the characters that get an onset,   *)
(* stated without the scheduler's loop.                                    *)
(***************************************************************************)
\* the cursor before character i, as a numerator over TimeDen: one step for
\* every earlier character, punct_mult steps for every earlier punctuation mark
CursorNum(in, i) ==
    Step(in.cps)[1] *
      ( in.pm[1] * Cardinality({j \in 1..(i - 1) : in.text[j] \in PUNCT})
      + in.pm[2] * Cardinality({j \in 1..(i - 1) : in.text[j] \notin PUNCT}) )

\* the index of the character the k-th onset belongs to
OnsetChar(in, k) ==
    CHOOSE i \in DOMAIN in.text :
        /\ in.ws \/ in.text[i] # " "
        /\ Cardinality({j \in 1..i : in.ws \/ in.text[j] # " "}) = k

\* (t_final + grain_len/sr + 0.12) * sr as the fraction <<numerator, denominator>>
TotalFrac(in) ==
    << CursorNum(in, Len(in.text) + 1) * in.sr * 25
         + (Len(in.grain) * 25 + 3 * in.sr) * TimeDen(in.cps, in.pm),
       25 * TimeDen(in.cps, in.pm) >>

(***************************************************************************)
(* C20 (as claimed): each onset equals round(t * sampleRate) for the       *)
(* cursor t before its character, and the total length equals              *)
(* round((t_final + grainLength/sampleRate + 0.12) * sampleRate) + 1.      *)
(***************************************************************************)
C20_RoundedOnsets ==
    (stage \in {"scheduled", "rendered"}) =>
        /\ \A k \in DOMAIN sOut.starts :
             sOut.starts[k] =
                 RoundNearest(CursorNum(sIn, OnsetChar(sIn, k)) * sIn.sr,
                              TimeDen(sIn.cps, sIn.pm))
        /\ sOut.total = RoundNearest(TotalFrac(sIn)[1], TotalFrac(sIn)[2]) + 1

(***************************************************************************)
(* C20 (amended): each onset equals t * sampleRate truncated to an integer *)
(* (onset <= t * sampleRate < onset + 1) for the cursor t before its       *)
(* character, and the total length is the truncation of                    *)
(* (t_final + grainLength/sampleRate + 0.12) * sampleRate, plus 1.         *)
(***************************************************************************)
C20_TruncatedOnsets ==
    (stage \in {"scheduled", "rendered"}) =>
        /\ \A k \in DOMAIN sOut.starts :
             /\ sOut.starts[k] * TimeDen(sIn.cps, sIn.pm)
                  <= CursorNum(sIn, OnsetChar(sIn, k)) * sIn.sr
             /\ CursorNum(sIn, OnsetChar(sIn, k)) * sIn.sr
                  < (sOut.starts[k] + 1) * TimeDen(sIn.cps, sIn.pm)
        /\ (sOut.total - 1) * TotalFrac(sIn)[2] <= TotalFrac(sIn)[1]
        /\ TotalFrac(sIn)[1] < sOut.total * TotalFrac(sIn)[2]

\* "aaa" at cps=26, sr=1000: the third onset is 76 (t * sr = 76.92...), not 77
C20_Witness ==
    /\ stage = "scheduled"
    /\ sIn.text = <<"a", "a", "a">> /\ sIn.cps = <<26, 1>> /\ sIn.sr = 1000
    /\ sOut.starts = <<0, 38, 76>>

(***************************************************************************)
(* C13: a synthesis call with a non-positive duration or a non-positive    *)
(* sample rate raises a parameter-validation error instead of returning a  *)
(* grain.                                                                  *)
(***************************************************************************)
C13_InvalidParametersRejected ==
    (stage = "synth" /\ (sIn.ms <= 0 \/ sIn.sr <= 0)) => sOut.raised

(***************************************************************************)
(* Helpers of C15.                                                         *)
(***************************************************************************)
\* the signed 16-bit value of two little-endian bytes
Unpack16(lo, hi) == IF lo + 256 * hi >= 32768 THEN lo + 256 * hi - 65536 ELSE lo + 256 * hi

\* the value encoded for sample i
Encoded(i) == Unpack16(sOut[2 * i - 1], sOut[2 * i])

\* the clamped sample i, in units of 1/PcmDen, stated without Clamp
Clamped(i) ==
    CHOOSE c \in (-PcmDen)..PcmDen :
        \/ sIn.samples[i] = c
        \/ sIn.samples[i] > PcmDen /\ c = PcmDen
        \/ sIn.samples[i] < -PcmDen /\ c = -PcmDen

(***************************************************************************)
(* C15 (as claimed): every sample s is encoded as the signed 16-bit        *)
(* little-endian value round(clamp(s, -1, 1) * 32767), which lies in       *)
(* [-32767, 32767].                                                        *)
(***************************************************************************)
C15_RoundedPcm ==
    (stage = "encoded") =>
        /\ Len(sOut) = 2 * Len(sIn.samples)
        /\ \A i \in DOMAIN sIn.samples :
             /\ Encoded(i) = IF Clamped(i) >= 0
                             THEN RoundNearest(Clamped(i) * 32767, PcmDen)
                             ELSE -RoundNearest((-Clamped(i)) * 32767, PcmDen)
             /\ -32767 <= Encoded(i) /\ Encoded(i) <= 32767

(***************************************************************************)
(* C15 (amended): every sample s is encoded as the signed 16-bit           *)
(* little-endian value of clamp(s, -1, 1) * 32767 truncated toward zero    *)
(* (|v| <= |clamp(s) * 32767| < |v| + 1, with the sign of s), which lies   *)
(* in [-32767, 32767].                                                     *)
(***************************************************************************)
C15_TruncatedPcm ==
    (stage = "encoded") =>
        /\ Len(sOut) = 2 * Len(sIn.samples)
        /\ \A i \in DOMAIN sIn.samples :
             /\ Abs(Encoded(i)) * PcmDen <= Abs(Clamped(i)) * 32767
             /\ Abs(Clamped(i)) * 32767 < (Abs(Encoded(i)) + 1) * PcmDen
             /\ Encoded(i) * Clamped(i) >= 0
             /\ -32767 <= Encoded(i) /\ Encoded(i) <= 32767

\* a sample whose product with 32767 has a fraction above one half, its negative
\* and a sample beyond the clamp: truncated toward zero, full scale for the last
C15_Witness ==
    /\ stage = "encoded"
    /\ Len(sIn.samples) = 2
    /\ sIn.samples[1] * 32767 % PcmDen > PcmDen \div 2
    /\ sIn.samples[1] > 0 /\ sIn.samples[1] < PcmDen
    /\ sIn.samples[2] < -PcmDen
    /\ Encoded(1) = (sIn.samples[1] * 32767) \div PcmDen
    /\ Encoded(2) = -32767

(***************************************************************************)
(* C21: for every schedule with at least one onset the total length is at  *)
(* least the last onset plus the grain length, so every scheduled grain    *)
(* fits entirely inside the buffer.                                        *)
(***************************************************************************)
C21_GrainsFitBuffer ==
    (stage \in {"scheduled", "rendered"} /\ sOut.starts # <<>>) =>
        /\ sOut.total >= sOut.starts[Len(sOut.starts)] + Len(sIn.grain)
        /\ \A k \in DOMAIN sOut.starts : sOut.starts[k] + Len(sIn.grain) <= sOut.total

\* three onsets of a three-sample grain, the last one later than the first
C21_Witness ==
    /\ stage = "scheduled"
    /\ Len(sOut.starts) = 3 /\ Len(sIn.grain) = 3
    /\ sOut.starts[3] > sOut.starts[1]
    /\ sOut.starts[3] + 3 <= sOut.total

(***************************************************************************)
(* Helper of C22: the cursor before character i at one character per       *)
(* second, as a numerator over the denominator of punct_mult.              *)
(***************************************************************************)
UnitCursor(in, i) ==
      in.pm[1] * Cardinality({j \in 1..(i - 1) : in.text[j] \in PUNCT})
    + in.pm[2] * Cardinality({j \in 1..(i - 1) : in.text[j] \notin PUNCT})

(***************************************************************************)
(* C22: for a rate below 1 char/sec (zero and negative rates included) the *)
(* schedule is the schedule of cps = 1: the cursor advances by one second  *)
(* per character (punct_mult seconds after punctuation), never backward,   *)
(* and print_line_synced writes the characters at the same cursor.         *)
(***************************************************************************)
C22_RateClampedToOne ==
    (sIn.cps[1] < sIn.cps[2]) =>
        /\ (stage \in {"scheduled", "rendered"}) =>
             /\ \A k \in DOMAIN sOut.starts :
                  sOut.starts[k] = (UnitCursor(sIn, OnsetChar(sIn, k)) * sIn.sr) \div sIn.pm[2]
             /\ sOut.total =
                  ((UnitCursor(sIn, Len(sIn.text) + 1) * sIn.sr * 25
                      + (Len(sIn.grain) * 25 + 3 * sIn.sr) * sIn.pm[2]) \div (25 * sIn.pm[2])) + 1
        /\ (stage = "printed") =>
             /\ Len(rOut.targets) = Len(sIn.text)
             /\ \A i \in DOMAIN sIn.text :
                  rOut.targets[i] * sIn.pm[2] = UnitCursor(sIn, i) * rOut.den
             /\ \A i, j \in DOMAIN sIn.text : i <= j => rOut.targets[i] <= rOut.targets[j]

\* "a.b" at cps = 0, punctuation multiplier 2, sample rate 1000: onsets at 0 s, 1 s, 3 s
C22_Witness ==
    /\ stage = "scheduled"
    /\ sIn.cps = <<0, 1>> /\ sIn.pm = <<2, 1>> /\ sIn.sr = 1000
    /\ sIn.text = <<"a", ".", "b">>
    /\ sOut.starts = <<0, 1000, 3000>>

(***************************************************************************)
(* Helper of C23: what the k-th onset contributes to sample j (1-based):   *)
(* grain[j - s] (0-based) when s <= j < s + grainLength, nothing otherwise. *)
(***************************************************************************)
Contribution(k, j) ==
    IF sOut.starts[k] <= j - 1 /\ j - 1 < sOut.starts[k] + Len(sIn.grain)
    THEN sIn.grain[j - sOut.starts[k]]
    ELSE 0

(***************************************************************************)
(* C23: before limiting, the rendered buffer has the scheduled total       *)
(* length and sample j is the sum, over all onsets s with                  *)
(* s <= j < s + grainLength, of grain[j - s]: overlapping grains add,      *)
(* nothing is written past the end of the buffer and a sample no grain     *)
(* covers is zero.                                                         *)
(***************************************************************************)
C23_BufferIsSumOfGrains ==
    (stage = "rendered") =>
        /\ Len(sOut.buf) = sOut.total
        /\ \A j \in 1..sOut.total :
             sOut.buf[j] = SumSeq([k \in 1..Len(sOut.starts) |-> Contribution(k, j)])

\* two onsets whose grains overlap on a sample where both are non-zero, and a
\* sample that no grain covers
C23_Witness ==
    /\ stage = "rendered"
    /\ \E j \in 1..sOut.total : \E k, l \in DOMAIN sOut.starts :
         /\ k < l /\ Contribution(k, j) # 0 /\ Contribution(l, j) # 0
         /\ sOut.buf[j] = Contribution(k, j) + Contribution(l, j)
    /\ \E j \in 1..sOut.total : \A k \in DOMAIN sOut.starts :
         ~(sOut.starts[k] <= j - 1 /\ j - 1 < sOut.starts[k] + Len(sIn.grain))

(***************************************************************************)
(* Helpers of C24: the input of limit_peak after the mean is subtracted    *)
(* (when dc_block is on) as numerators DcNum over the denominator DcDen,   *)
(* and its peak, stated without the limiter's operators.                   *)
(***************************************************************************)
DcNum(i) ==
    IF sIn.dc THEN Len(sIn.samples) * sIn.samples[i] - SumSeq(sIn.samples)
    ELSE sIn.samples[i]

DcDen == IF sIn.dc THEN Len(sIn.samples) * GrainUnit ELSE GrainUnit

DcPeak ==
    CHOOSE pk \in {Abs(DcNum(i)) : i \in DOMAIN sIn.samples} :
        \A i \in DOMAIN sIn.samples : Abs(DcNum(i)) <= pk

\* what the first call of limit_peak returns
LimitedOnce ==
    /\ Len(sOut.num) = Len(sIn.samples)
    /\ sIn.samples = <<>> => sOut.num = <<>>
    /\ sIn.samples # <<>> =>
         IF DcPeak * sIn.ceil[2] > sIn.ceil[1] * DcDen
         THEN \A i \in DOMAIN sIn.samples :
                sOut.num[i] * sIn.ceil[2] * DcPeak = DcNum(i) * sIn.ceil[1] * sOut.den
         ELSE /\ sOut.err = 0
              /\ \A i \in DOMAIN sIn.samples : sOut.num[i] * DcDen = DcNum(i) * sOut.den

(***************************************************************************)
(* C24 (as claimed): the limiter returns empty input unchanged; otherwise  *)
(* it subtracts the mean when DC-block is on and scales by ceiling/peak    *)
(* if and only if the peak exceeds the ceiling; the length is kept, and a  *)
(* second application with the same ceiling changes nothing.               *)
(***************************************************************************)
C24_LimiterIdempotent ==
    /\ (stage \in {"limited", "relimited"}) => LimitedOnce
    /\ (stage = "relimited") =>
         /\ Len(rOut.num) = Len(sOut.num)
         /\ \A i \in DOMAIN sOut.num : rOut.num[i] * sOut.den = sOut.num[i] * rOut.den
         /\ rOut.err = sOut.err

(***************************************************************************)
(* C24 (amended): the limiter returns empty input unchanged; otherwise it  *)
(* subtracts the mean when DC-block is on and scales by ceiling/peak if    *)
(* and only if the peak exceeds the ceiling; the length is kept, and a     *)
(* second application with the same ceiling changes no sample by more than *)
(* floating-point rounding error.                                          *)
(***************************************************************************)
C24_LimiterStableUpToRounding ==
    /\ (stage \in {"limited", "relimited"}) => LimitedOnce
    /\ (stage = "relimited") =>
         /\ Len(rOut.num) = Len(sOut.num)
         /\ \A i \in DOMAIN sOut.num : rOut.num[i] * sOut.den = sOut.num[i] * rOut.den
         /\ rOut.err \in RoundErr

\* a sequence with a non-zero mean and a peak above the ceiling: the mean was
\* subtracted, the result scaled to the ceiling, and the limiter applied again
C24_Witness ==
    /\ stage = "relimited"
    /\ sIn.dc /\ SumSeq(sIn.samples) # 0
    /\ DcPeak * sIn.ceil[2] > sIn.ceil[1] * DcDen
    /\ MaxAbs(sOut.num) * sIn.ceil[2] = sIn.ceil[1] * sOut.den
    /\ MaxAbs(rOut.num) * sIn.ceil[2] = sIn.ceil[1] * rOut.den

(***************************************************************************)
(* C25: once 180 ms have passed since the last flush, or once the most     *)
(* recently received chunk holds a punctuation character, the accumulated  *)
(* text has been flushed: no text remains in the bucket while either       *)
(* condition is true.                                                      *)
(***************************************************************************)
C25_BucketFlushedInTime ==
    (bucket # <<>>) =>
        /\ since * TickMs < COALESCE_MS
        /\ ~HasPunct(bucket[Len(bucket)])

(***************************************************************************)
(* Helper of C26: the text s holds pat as a substring.                     *)
(***************************************************************************)
Contains(s, pat) ==
    \E i \in 1..(Len(s) - Len(pat) + 1) : SubSeq(s, i, i + Len(pat) - 1) = pat

(***************************************************************************)
(* C26: every received chunk is echoed to the display unmodified, markup   *)
(* included (the display holds the raw text of every fragment and of the   *)
(* bucket), while no fragment handed to the audio worker holds the literal *)
(* <think> or </think>, however the text is split into chunks.             *)
(***************************************************************************)
C26_MarkupEchoedNotPlayed ==
    /\ printed = Join([i \in DOMAIN enq |-> enq[i].raw]) \o Join(bucket)
    /\ \A i \in DOMAIN enq :
         /\ ~Contains(enq[i].audio, THINK_OPEN)
         /\ ~Contains(enq[i].audio, THINK_CLOSE)

(***************************************************************************)
(* C27: once the worker has observed the stop flag or dequeued the         *)
(* sentinel (it has left its loop) it starts no further render or          *)
(* playback, and a fragment enqueued after close() is never played.        *)
(***************************************************************************)
C27_NothingPlayedAfterClose ==
    [][ /\ (wpc = "done") => (wpc' = "done" /\ started' = started /\ nplay' = nplay)
        /\ \A i \in DOMAIN started' : started'[i] \notin Late' ]_vars

\* the worker has left its loop after playing a fragment, and a fragment
\* enqueued after close() sits in the queue behind the sentinel
C27_Witness ==
    /\ wpc = "done" /\ started # <<>>
    /\ Late # {}
    /\ \E i \in DOMAIN q : q[i].n \in Late

(***************************************************************************)
(* C28: the three copies of the variation table describe the same 20       *)
(* presets: entry k of ollamablip's and of miniblip's table has the name   *)
(* and, part by part, the recipe of entry k of blip's table, and the three *)
(* schedulers return the same onsets and total length for the same inputs. *)
(***************************************************************************)
C28_CopiesAgree ==
    /\ (stage = "built") =>
         /\ Len(Table(sIn.file)) = 20
         /\ sOut = BuildEntry("blip", sIn.k)
    /\ (stage = "scheduled_in") =>
         sOut = ScheduleIn("blip", sIn.text, sIn.cps, sIn.pm, sIn.ws, sIn.glen, sIn.sr)

(***************************************************************************)
(* Helpers of C29.                                                         *)
(***************************************************************************)
\* the bounds of the configuration (amplitude in hundredths, gap in
\* hundredths of a second)
InBounds(c) ==
    /\ c.cps > 0
    /\ c.pm[1] > 0 /\ c.pm[2] > 0
    /\ c.gap >= 0
    /\ 10 <= c.flush /\ c.flush <= 2000
    /\ 1 <= c.amp /\ c.amp <= 100
    /\ 8000 <= c.sr /\ c.sr <= 192000

\* the input e at the prompt of choice c fails to parse or is rejected
\* (amplitude and silence-flush are clamped, never rejected)
Rejected(c, e) ==
    \/ e.kind = "bad"
    \/ /\ e.kind = "num"
       /\ \/ c = "c" /\ e.v <= 0
          \/ c = "p" /\ e.v[1] <= 0
          \/ c = "g" /\ e.v < 0
          \/ c = "h" /\ (e.v < 8000 \/ e.v > 192000)

(***************************************************************************)
(* C29: after any sequence of menu inputs the configuration is within its  *)
(* bounds (cps > 0, punctuation multiplier > 0, post-gap >= 0,             *)
(* silence-flush in [10, 2000] ms, amplitude in [0.01, 1.0], sample rate   *)
(* in [8000, 192000]), and an input that is rejected or fails to parse     *)
(* leaves the configuration and the variation bank unchanged.              *)
(***************************************************************************)
C29_ConfigStaysInBounds ==
    [][ /\ InBounds(cfg) /\ InBounds(cfg')
        /\ Rejected(choice', entry') =>
             (cfg' = cfg /\ bank' = bank /\ heap' = heap /\ nbuilds' = nbuilds) ]_vars

\* a sample rate below the range was just rejected; before that an amplitude
\* and a silence-flush length beyond their ranges were clamped
C29_Witness ==
    /\ choice = "h" /\ entry.kind = "num" /\ entry.v < 8000
    /\ cfg.sr = DEFAULT_SR
    /\ cfg.amp = 100 /\ cfg.flush = 2000
    /\ nbuilds = 2

=============================================================================
